---- MODULE Spec2Model ----
(***************************************************************************)
(* A model of python-ocr-converter: the command line driver `main` and the *)
(* desktop driver `PDFOCRGUI.run_ocr` (src/pdf_ocr_cli.py,                 *)
(* src/pdf_ocr_gui.py), the per-document function `process_single_pdf`     *)
(* with its page loop, and the page classifier `pdf_page_has_text`.        *)
(*                                                                         *)
(* The rasterizer (pdf2image), the OCR engine (pytesseract) and the PDF    *)
(* libraries (PyPDF2, pdfplumber) are collaborators: each call into them   *)
(* either returns or raises, chosen nondeterministically.                  *)
(***************************************************************************)
EXTENDS Integers, Sequences, FiniteSets, TLC

VARIABLES
    mode,          \* "cli": main(); "gui": PDFOCRGUI.run_ocr() on its worker thread
    tesseract_ok,  \* the OCR engine answers pytesseract.get_tesseract_version()
    poppler_ok,    \* the rasterizer (poppler's pdftoppm) is installed
    input_kind,    \* what input_path names: "missing", "file", "dir", "other"
    dir_count,     \* number of PDF documents in the input directory
    skip_if_text,  \* option --skip-text-pages / the GUI's skip_text checkbox
    output_txt,    \* option --txt / the GUI's output_txt checkbox
    output_pdf,    \* not --no-pdf; always TRUE in the GUI
    pc,            \* position of the driver
    errors,        \* startup failures reported (logging.error / messagebox.showerror)
    exit_code,     \* the CLI's process exit status as a sequence: << >> while running
    files,         \* the resolved input list
    doc_idx,       \* 1-based position in files of the current document, 0 before the loop
    results,       \* main's `results` list
    log_queue,     \* messages put on the GUI's log_queue by gui_log
    num_pages,     \* process_single_pdf: len(reader_orig.pages)
    nimages,       \* process_single_pdf: len(images)
    mismatch_warned, \* process_single_pdf: the page-count mismatch warning was logged
    page_idx,      \* process_single_pdf: number of (page, image) pairs processed
    writer,        \* process_single_pdf: pages held by the PdfWriter
    all_text,      \* process_single_pdf: the text accumulator
    calls,         \* per processed page: collaborator calls made and log lines written
    cls_args,      \* arguments of a stand-alone pdf_page_has_text call
    cls_ret,       \* its return value
    heap,          \* GUI worker threads: the PdfWriter and list objects that exist
    frames         \* GUI worker threads: each thread's position and local names

vars == << mode, tesseract_ok, poppler_ok, input_kind, dir_count, skip_if_text,
           output_txt, output_pdf, pc, errors, exit_code, files, doc_idx, results,
           log_queue, num_pages, nimages, mismatch_warned, page_idx, writer,
           all_text, calls, cls_args, cls_ret, heap, frames >>

\* The environment and the options: fixed during a run.
config == << mode, tesseract_ok, poppler_ok, input_kind, dir_count, skip_if_text,
             output_txt, output_pdf >>

\* The local variables of process_single_pdf.
locals == << num_pages, nimages, mismatch_warned, page_idx, writer, all_text,
            calls >>

probe == << cls_args, cls_ret >>

\* The worker threads started by clicks on Start, and their objects.
workers == << heap, frames >>

(***************************************************************************)
(* Bounds of the model and constants of the program.                       *)
(***************************************************************************)
MaxPages == 2

MaxDocs == 2

TEXT_THRESHOLD == 20

BLANK_WIDTH == 595

BLANK_HEIGHT == 842

(***************************************************************************)
(* Strings are sequences of characters.                                    *)
(***************************************************************************)
Whitespace == {" ", "\n", "\t", "\f"}

RECURSIVE Rep(_, _)
Rep(c, n) == IF n <= 0 THEN << >> ELSE << c >> \o Rep(c, n - 1)

RECURSIVE lstrip(_)
lstrip(s) ==
    IF s # << >> /\ Head(s) \in Whitespace THEN lstrip(Tail(s)) ELSE s

RECURSIVE rstrip(_)
rstrip(s) ==
    IF s # << >> /\ s[Len(s)] \in Whitespace
    THEN rstrip(SubSeq(s, 1, Len(s) - 1))
    ELSE s

\* str.strip()
strip(s) == rstrip(lstrip(s))

\* An Optional[str]: what extract_text() returns.
None == [none |-> TRUE, s |-> << >>]

Str(s) == [none |-> FALSE, s |-> s]

\* Python truthiness of an Optional[str].
Truthy(t) == ~t.none /\ Len(t.s) > 0

\* `t or ""`
OrEmpty(t) == IF Truthy(t) THEN t.s ELSE << >>

(***************************************************************************)
(* pdf_page_has_text(pdf_path, page_number).  open_ok: pdfplumber.open     *)
(* succeeds; npages: len(doc.pages); extract_ok: extract_text() returns;   *)
(* text: what it returns.  has_text_try is the body of the try block:      *)
(* "raise" when a collaborator raises, "fallthrough" when the block ends   *)
(* without returning.                                                      *)
(***************************************************************************)
has_text_try_ge(open_ok, npages, page_number, extract_ok, text) ==
    IF ~open_ok THEN "raise"
    ELSE IF page_number < 0 \/ page_number >= npages THEN "False"
    ELSE IF ~extract_ok THEN "raise"
    ELSE IF Truthy(text) /\ Len(strip(text.s)) >= TEXT_THRESHOLD THEN "True"
    ELSE "fallthrough"

has_text_try(open_ok, npages, page_number, extract_ok, text) ==
    IF ~open_ok THEN "raise"
    ELSE IF page_number < 0 \/ page_number >= npages THEN "False"
    ELSE IF ~extract_ok THEN "raise"
    ELSE IF Truthy(text) /\ Len(strip(text.s)) > TEXT_THRESHOLD THEN "True"
    ELSE "fallthrough"

pdf_page_has_text(open_ok, npages, page_number, extract_ok, text) ==
    LET r == has_text_try(open_ok, npages, page_number, extract_ok, text)
    IN  IF r = "raise" THEN "False"            \* except Exception: return False
        ELSE IF r = "fallthrough" THEN "False" \* the final return False
        ELSE r

(***************************************************************************)
(* What pdfplumber may show of one page of a document.                     *)
(***************************************************************************)
ShortPadded == << " " >> \o Rep("x", TEXT_THRESHOLD) \o << "\n" >>

LongText == << " " >> \o Rep("x", TEXT_THRESHOLD + 1)

PageTexts == { None, Str(<< >>), Str(ShortPadded), Str(LongText) }

PlumberViews ==
    { [open_ok |-> FALSE, extract_ok |-> FALSE, text |-> None],
      [open_ok |-> TRUE, extract_ok |-> FALSE, text |-> None] }
    \cup { [open_ok |-> TRUE, extract_ok |-> TRUE, text |-> t] : t \in PageTexts }

\* What pytesseract.image_to_string may return: nothing, a lone form feed, text.
OcrTexts == { << >>, << "\f" >>, << "A", "\f" >> }

(***************************************************************************)
(* Pages of the output writer, tagged with the input index they come from. *)
(***************************************************************************)
OrigPage(i) == [kind |-> "orig", src |-> i]

OcrPage(i) == [kind |-> "ocr", src |-> i]

BlankPage(i, w, h) == [kind |-> "blank", src |-> i, width |-> w, height |-> h]

\* What is recorded of one iteration of the page loop.
NewEvent(i) ==
    [idx |-> i, cls |-> "not_called", copy |-> "none", extract |-> "none",
     ocr_pdf |-> "none", ocr_txt |-> "none", handler |-> "none",
     text |-> << >>, log |-> << >>]

\* ocr_image_to_pdf_bytes: a one-page PDF of the image of page i.
ocr_image_to_pdf_bytes(i) == << OcrPage(i) >>

\* merge_pdf_bytes_into_writer: every page of pdf_bytes is added.
merge_pdf_bytes_into_writer(w, pdf_bytes) == w \o pdf_bytes

(***************************************************************************)
(* One iteration of the page loop of process_single_pdf.  The loop's local *)
(* state is st = [writer, all_text, ev]; each step below yields the set of *)
(* outcomes the collaborators allow, an outcome being the state reached    *)
(* and whether an exception is propagating.                                *)
(***************************************************************************)
Logged(st, line) == [st EXCEPT !.ev.log = Append(@, line)]

\* writer.add_page(reader_orig.pages[page_idx]), when it returns.
add_original_as_ocr(st, i) ==
    [st EXCEPT !.writer = Append(@, OcrPage(i))]

add_original(st, i) ==
    [st EXCEPT !.writer = Append(@, OrigPage(i))]

\* reader_orig.pages[page_idx] raises IndexError past the last page.
CanCopy(i) == i < num_pages

\* The OCR statements: ocr_image_to_pdf_bytes, merge_pdf_bytes_into_writer and,
\* if output_txt, ocr_image_to_text and all_text.append.
OcrOutcomes(st, i) ==
    LET failed == [st EXCEPT !.ev.ocr_pdf = "failed"]
        merged == [st EXCEPT
                     !.writer = merge_pdf_bytes_into_writer(@, ocr_image_to_pdf_bytes(i)),
                     !.ev.ocr_pdf = "ok"]
    IN  { [st |-> failed, raised |-> TRUE] }
        \cup
        ( IF output_txt
          THEN { [st |-> [merged EXCEPT !.ev.ocr_txt = "failed"], raised |-> TRUE] }
               \cup
               { [st |-> [merged EXCEPT !.all_text = Append(@, t),
                                        !.ev.ocr_txt = "ok",
                                        !.ev.text = << t >>],
                  raised |-> FALSE] : t \in OcrTexts }
          ELSE { [st |-> merged, raised |-> FALSE] } )

\* The inner except block: log the warning and fall back to OCR.
InnerExcept_reraise(st, i) ==
    { [st |-> Logged(st, "warning: failed to copy original page"), raised |-> TRUE] }

InnerExcept(st, i) ==
    OcrOutcomes(Logged(st, "warning: failed to copy original page"), i)

\* The skip branch: copy the original page and, if output_txt, append its
\* existing text; any exception of the two is caught by the inner except.
SkipOutcomes(st, i, text) ==
    LET info == Logged(st, "info: copying original page")
        copied == [add_original(info, i) EXCEPT !.ev.copy = "ok"]
    IN  InnerExcept([info EXCEPT !.ev.copy = "failed"], i)
        \cup
        ( IF ~CanCopy(i) THEN {}
          ELSE IF output_txt
          THEN InnerExcept([copied EXCEPT !.ev.extract = "failed"], i)
               \cup
               { [st |-> [copied EXCEPT !.all_text = Append(@, OrEmpty(text)),
                                        !.ev.extract = "ok",
                                        !.ev.text = << OrEmpty(text) >>],
                  raised |-> FALSE] }
          ELSE { [st |-> copied, raised |-> FALSE] } )

\* The outer except block: log, add the original page if it can be copied,
\* otherwise a blank page.
OuterExcept_no_blank(st, i) ==
    LET logged == Logged(st, "exception: error processing page")
    IN  ( IF CanCopy(i)
          THEN { [add_original(logged, i) EXCEPT !.ev.handler = "orig"] }
          ELSE {} )
        \cup
        { [logged EXCEPT !.ev.handler = "blank"] }

OuterExcept(st, i) ==
    LET logged == Logged(st, "exception: error processing page")
    IN  ( IF CanCopy(i)
          THEN { [add_original(logged, i) EXCEPT !.ev.handler = "orig"] }
          ELSE {} )
        \cup
        { [logged EXCEPT !.writer = Append(@, BlankPage(i, BLANK_WIDTH, BLANK_HEIGHT)),
                         !.ev.handler = "blank"] }

\* The try block of the loop body, for one view pdfplumber gives of the page.
TryOutcomes(st, i, v) ==
    IF skip_if_text
    THEN IF pdf_page_has_text(v.open_ok, num_pages, i, v.extract_ok, v.text) = "True"
         THEN SkipOutcomes([st EXCEPT !.ev.cls = "text"], i, v.text)
         ELSE OcrOutcomes([st EXCEPT !.ev.cls = "no_text"], i)
    ELSE OcrOutcomes(st, i)

\* The loop body for page i: the states it may end in.
PageOutcomes(w, t, i) ==
    LET st == [writer |-> w, all_text |-> t, ev |-> NewEvent(i)]
        tried == UNION { TryOutcomes(st, i, v) : v \in PlumberViews }
    IN  UNION { IF o.raised THEN OuterExcept(o.st, i) ELSE { o.st } : o \in tried }

(***************************************************************************)
(* Start-up: check_dependencies and list_input_files.                      *)
(***************************************************************************)
\* check_dependencies: RuntimeError if Tesseract does not answer; the Poppler
\* part of the function is a `pass`.
check_dependencies_unchecked(t_ok, p_ok) == "ok"

check_dependencies(t_ok, p_ok) ==
    IF ~t_ok THEN "RuntimeError" ELSE "ok"

\* The entries of the input directory: n PDF documents (suffix in either
\* case) and a file that is not a PDF.
Suffix(name) == IF name = 0 THEN ".txt" ELSE IF name % 2 = 0 THEN ".PDF" ELSE ".pdf"

lower(suffix) == IF suffix = ".PDF" THEN ".pdf" ELSE suffix

DirEntries(n) == 0 .. n

\* sorted(): ascending by name.
RECURSIVE sorted(_)
sorted(S) ==
    IF S = {} THEN << >>
    ELSE LET m == CHOOSE x \in S : \A y \in S : x <= y
         IN  << m >> \o sorted(S \ { m })

\* list_input_files: the list, or FileNotFoundError.
list_input_files(kind, n) ==
    IF kind = "file" THEN [raised |-> FALSE, files |-> << 1 >>]
    ELSE IF kind = "dir"
    THEN [raised |-> FALSE,
          files |-> sorted({ e \in DirEntries(n) : lower(Suffix(e)) = ".pdf" })]
    ELSE [raised |-> TRUE, files |-> << >>]

\* sys.exit(code) in main.
Exit(code) ==
    /\ exit_code' = << code >>
    /\ pc' = "exited"

\* run_ocr: the input path must exist.
ExistsCheck ==
    /\ pc = "exists_check"
    /\ IF input_kind = "missing"
       THEN /\ errors' = Append(errors, "input path does not exist")
            /\ pc' = "returned"
       ELSE /\ pc' = "check_deps"
            /\ UNCHANGED errors
    /\ UNCHANGED << config, locals, probe, workers, exit_code, files, doc_idx, results,
                    log_queue >>

\* main and run_ocr: the dependency check and what follows its failure.
CheckDependencies ==
    /\ pc = "check_deps"
    /\ log_queue' = IF mode = "gui"
                    THEN Append(log_queue, [msg |-> "checking dependencies"])
                    ELSE log_queue
    /\ IF check_dependencies(tesseract_ok, poppler_ok) = "ok"
       THEN /\ pc' = "list_files"
            /\ UNCHANGED << errors, exit_code >>
       ELSE /\ errors' = Append(errors, "dependency")
            /\ IF mode = "cli"
               THEN Exit(1)
               ELSE pc' = "returned" /\ UNCHANGED exit_code
    /\ UNCHANGED << config, locals, probe, workers, files, doc_idx, results >>

\* main: files = list_input_files(input_path), an exception logged and exit(1).
\* run_ocr: the same call outside any try: an exception ends the worker thread.
ListInputFiles ==
    /\ pc = "list_files"
    /\ LET r == list_input_files(input_kind, dir_count)
       IN  IF ~r.raised
           THEN /\ files' = r.files
                /\ pc' = IF mode = "cli" THEN "batch_check" ELSE "loop"
                /\ log_queue' = IF mode = "gui"
                                THEN Append(log_queue,
                                            [msg |-> "processing", n |-> Len(r.files)])
                                ELSE log_queue
                /\ UNCHANGED << errors, exit_code >>
           ELSE /\ UNCHANGED << files, log_queue >>
                /\ IF mode = "cli"
                   THEN errors' = Append(errors, "input") /\ Exit(1)
                   ELSE pc' = "thread_died" /\ UNCHANGED << errors, exit_code >>
    /\ UNCHANGED << config, locals, probe, workers, doc_idx, results >>

\* main: --batch requires the input to be a directory.
BatchCheck ==
    /\ pc = "batch_check"
    /\ \E batch \in BOOLEAN :
         IF batch /\ input_kind # "dir"
         THEN errors' = Append(errors, "batch") /\ Exit(1)
         ELSE pc' = "loop" /\ UNCHANGED << errors, exit_code >>
    /\ UNCHANGED << config, locals, probe, workers, files, doc_idx, results, log_queue >>

(***************************************************************************)
(* The batch loop of main and of run_ocr, and process_single_pdf.          *)
(***************************************************************************)
\* `except Exception` around process_single_pdf: the exceptions it catches.
Caught_runtime_only(exc) == exc = "RuntimeError"

Caught(exc) == exc \in { "RuntimeError", "OSError" }

\* The end of process_single_pdf: its local variables are gone.
Leave ==
    /\ num_pages' = 0
    /\ nimages' = 0
    /\ mismatch_warned' = FALSE
    /\ page_idx' = 0
    /\ writer' = << >>
    /\ all_text' = << >>
    /\ calls' = << >>

\* The driver records the outcome of the current document: main appends to
\* results, run_ocr puts a message on the log queue.
Record(failed, exc) ==
    IF mode = "cli"
    THEN /\ results' = Append(results,
                              IF failed
                              THEN [input |-> files[doc_idx], error |-> exc]
                              ELSE [input |-> files[doc_idx],
                                    output_pdf |-> output_pdf,
                                    output_txt |-> output_txt])
         /\ UNCHANGED log_queue
    ELSE /\ log_queue' = Append(log_queue,
                                [msg |-> IF failed THEN "failed" ELSE "done",
                                 input |-> files[doc_idx], error |-> exc])
         /\ UNCHANGED results

\* process_single_pdf raises exc: the driver's handler records it, or the
\* exception escapes the loop.
Raises(exc) ==
    /\ Leave
    /\ IF Caught(exc)
       THEN Record(TRUE, exc) /\ pc' = "loop"
       ELSE pc' = "escaped" /\ UNCHANGED << results, log_queue >>
    /\ UNCHANGED << config, probe, workers, errors, exit_code, files, doc_idx >>

\* for pdf_file in files: the call of process_single_pdf.
NextDocument ==
    /\ pc = "loop"
    /\ doc_idx < Len(files)
    /\ doc_idx' = doc_idx + 1
    /\ pc' = "open"
    /\ UNCHANGED << config, locals, probe, workers, errors, exit_code, files, results,
                    log_queue >>

\* process_single_pdf: out_dir.mkdir (OSError) and PdfReader (RuntimeError).
OpenDocument ==
    /\ pc = "open"
    /\ \/ \E exc \in { "OSError", "RuntimeError" } : Raises(exc)
       \/ /\ num_pages' \in 0 .. MaxPages
          /\ pc' = "rasterize"
          /\ UNCHANGED << config, probe, workers, errors, exit_code, files, doc_idx,
                          results, log_queue, nimages, mismatch_warned,
                          page_idx, writer, all_text, calls >>

\* process_single_pdf: images = pdf_to_images(...), the warning when the number
\* of images differs from the page count, then the writer and the accumulator
\* are created.  Without Poppler convert_from_path always raises.
Rasterize ==
    /\ pc = "rasterize"
    /\ \/ Raises("RuntimeError")
       \/ /\ poppler_ok
          /\ nimages' \in 0 .. MaxPages
          /\ mismatch_warned' = ( nimages' # num_pages )
          /\ writer' = << >>
          /\ all_text' = << >>
          /\ page_idx' = 0
          /\ pc' = "pages"
          /\ UNCHANGED << config, probe, workers, errors, exit_code, files, doc_idx,
                          results, log_queue, num_pages, calls >>

\* One iteration of the page loop.
ProcessPage ==
    /\ pc = "pages"
    /\ page_idx < nimages
    /\ \E st \in PageOutcomes(writer, all_text, page_idx) :
         /\ writer' = st.writer
         /\ all_text' = st.all_text
         /\ calls' = Append(calls, st.ev)
    /\ page_idx' = page_idx + 1
    /\ UNCHANGED << config, probe, workers, pc, errors, exit_code, files, doc_idx,
                    results, log_queue, num_pages, nimages, mismatch_warned >>

\* The page-break separator of the text output.
PAGE_BREAK == << "\n", "\n", "=== PAGE BREAK ===", "\n", "\n" >>

\* str.join
RECURSIVE join(_, _)
join(sep, parts) ==
    IF parts = << >> THEN << >>
    ELSE IF Len(parts) = 1 THEN parts[1]
    ELSE parts[1] \o sep \o join(sep, Tail(parts))

RECURSIVE comprehension(_)
\* [t.strip() for t in all_text if t]
comprehension(texts) ==
    IF texts = << >> THEN << >>
    ELSE IF Head(texts) # << >>
    THEN << strip(Head(texts)) >> \o comprehension(Tail(texts))
    ELSE comprehension(Tail(texts))

\* The text written to the .txt output.
combined_text(texts) == join(PAGE_BREAK, comprehension(texts))

\* process_single_pdf after the loop: write the PDF, write the text, return.
\* A failed write is logged and raised again.
WriteOutputs ==
    /\ pc = "pages"
    /\ page_idx = nimages
    /\ \/ output_pdf /\ Raises("OSError")
       \/ output_txt /\ Raises("OSError")
       \/ /\ Leave
          /\ Record(FALSE, "")
          /\ pc' = "loop"
          /\ UNCHANGED << config, probe, workers, errors, exit_code, files, doc_idx >>

\* main's return value after the summary, which sys.exit(main()) makes the
\* exit status: 0 whatever the results hold.
main_return_failures(res) ==
    IF \E k \in 1 .. Len(res) : "error" \in DOMAIN res[k] THEN 1 ELSE 0

main_return(res) == 0

\* The end of the batch: main prints the summary and returns 0; run_ocr
\* notifies the user and returns.
Summary ==
    /\ pc = "loop"
    /\ doc_idx = Len(files)
    /\ IF mode = "cli"
       THEN Exit(main_return(results)) /\ UNCHANGED log_queue
       ELSE /\ pc' = "returned"
            /\ log_queue' = Append(log_queue, [msg |-> "all tasks complete"])
            /\ UNCHANGED exit_code
    /\ UNCHANGED << config, locals, probe, workers, errors, files, doc_idx, results >>

(***************************************************************************)
(* The GUI's worker threads.  start_ocr_thread starts a new thread at      *)
(* every click on Start; each runs run_ocr, which calls process_single_pdf *)
(* for every document.  Objects live on a heap shared by the threads; a    *)
(* frame holds the references its thread's local names are bound to (0:    *)
(* unbound).  An object records the run that created it and every item the *)
(* run that appended it, a run being one call of process_single_pdf.       *)
(***************************************************************************)
\* Two clicks on Start.
Workers == { "w1", "w2" }

MaxRunDocs == 2

MaxRunPages == 1

NoFrame == [state |-> "not_started", doc |-> 0, page_idx |-> 0,
            writer |-> 0, all_text |-> 0]

\* The call of process_single_pdf that thread t is executing.
RunOf(f, t) == << t, f[t].doc >>

\* PdfWriter() and []: a new object, distinct from every object that exists.
new_object_shared(h) == 1

new_object(h) == CHOOSE r \in 1 .. Cardinality(DOMAIN h) + 1 : r \notin DOMAIN h

\* name = <new object>: the object is empty and belongs to the run.
bind(h, r, run) ==
    [x \in DOMAIN h \cup { r } |->
        IF x = r THEN [owner |-> run, items |-> << >>] ELSE h[x]]

\* Objects no local name refers to are gone.
Live(f) == { f[t].writer : t \in Workers } \cup { f[t].all_text : t \in Workers }

collect(h, f) == [x \in DOMAIN h \cap Live(f) |-> h[x]]

\* The content of an object, and what an iteration of the page loop appended.
Items(o) == [k \in 1 .. Len(o.items) |-> o.items[k].item]

Appended(old, new) == SubSeq(new, Len(old) + 1, Len(new))

\* obj.append / add_page executed by a run, for every item of `new`.
extend(o, new, run) ==
    [o EXCEPT !.items = @ \o [k \in 1 .. Len(new) |-> [run |-> run, item |-> new[k]]]]

(***************************************************************************)
(* The specification of a run.                                             *)
(***************************************************************************)
NoCall == [open_ok |-> FALSE, npages |-> 0, page_number |-> 0,
           extract_ok |-> FALSE, text |-> None]

Init ==
    /\ mode \in { "cli", "gui" }
    /\ tesseract_ok \in BOOLEAN
    /\ poppler_ok \in BOOLEAN
    /\ input_kind \in { "missing", "file", "dir", "other" }
    /\ dir_count \in 0 .. MaxDocs
    /\ input_kind # "dir" => dir_count = 0
    /\ skip_if_text \in BOOLEAN
    /\ output_txt \in BOOLEAN
    /\ output_pdf \in BOOLEAN
    /\ mode = "gui" => output_pdf
    /\ pc = IF mode = "cli" THEN "check_deps" ELSE "exists_check"
    /\ errors = << >>
    /\ exit_code = << >>
    /\ files = << >>
    /\ doc_idx = 0
    /\ results = << >>
    /\ log_queue = << >>
    /\ num_pages = 0
    /\ nimages = 0
    /\ mismatch_warned = FALSE
    /\ page_idx = 0
    /\ writer = << >>
    /\ all_text = << >>
    /\ calls = << >>
    /\ cls_args = NoCall
    /\ cls_ret = "none"
    /\ heap = << >>
    /\ frames = [t \in Workers |-> NoFrame]

Next ==
    \/ ExistsCheck
    \/ CheckDependencies
    \/ ListInputFiles
    \/ BatchCheck
    \/ NextDocument
    \/ OpenDocument
    \/ Rasterize
    \/ ProcessPage
    \/ WriteOutputs
    \/ Summary

Spec == Init /\ [][Next]_vars

(***************************************************************************)
(* A stand-alone call of pdf_page_has_text, its arguments drawn from       *)
(* bounded sets: texts of trimmed length around the threshold, with and    *)
(* without surrounding and inner whitespace.                               *)
(***************************************************************************)
MaxPad == 1

Body(m, inner) ==
    IF inner /\ m >= 3 THEN << "x" >> \o Rep(" ", m - 2) \o << "x" >> ELSE Rep("x", m)

BodyLengths ==
    { 0, 1, TEXT_THRESHOLD - 1, TEXT_THRESHOLD, TEXT_THRESHOLD + 1, TEXT_THRESHOLD + 2 }

ClsTexts ==
    { None }
    \cup { Str(Rep(" ", l) \o Body(m, inner) \o Rep("\n", t)) :
             l \in 0 .. MaxPad, t \in 0 .. MaxPad, m \in BodyLengths, inner \in BOOLEAN }
    \cup { Str(Rep(" ", TEXT_THRESHOLD + 1 + l)) : l \in 0 .. MaxPad }

ClsArgs ==
    [open_ok : BOOLEAN, npages : 0 .. MaxPages, page_number : -1 .. MaxPages,
     extract_ok : BOOLEAN, text : ClsTexts]

InitClassifier ==
    /\ mode = "cli"
    /\ tesseract_ok = TRUE
    /\ poppler_ok = TRUE
    /\ input_kind = "file"
    /\ dir_count = 0
    /\ skip_if_text = TRUE
    /\ output_txt = FALSE
    /\ output_pdf = TRUE
    /\ pc = "classify"
    /\ errors = << >>
    /\ exit_code = << >>
    /\ files = << >>
    /\ doc_idx = 0
    /\ results = << >>
    /\ log_queue = << >>
    /\ num_pages = 0
    /\ nimages = 0
    /\ mismatch_warned = FALSE
    /\ page_idx = 0
    /\ writer = << >>
    /\ all_text = << >>
    /\ calls = << >>
    /\ cls_args \in ClsArgs
    /\ cls_ret = "none"
    /\ heap = << >>
    /\ frames = [t \in Workers |-> NoFrame]

Classify ==
    /\ pc = "classify"
    /\ cls_ret' = pdf_page_has_text(cls_args.open_ok, cls_args.npages,
                                    cls_args.page_number, cls_args.extract_ok,
                                    cls_args.text)
    /\ pc' = "classified"
    /\ UNCHANGED << config, locals, workers, errors, exit_code, files, doc_idx,
                    results, log_queue, cls_args >>

NextClassifier == Classify

SpecClassifier == InitClassifier /\ [][NextClassifier]_vars

(***************************************************************************)
(* Several worker threads of the GUI processing the same input directory.  *)
(* The dependencies are there, every page is sent to OCR and the text      *)
(* output is on; every document opens with the same page count.  What      *)
(* varies is the interleaving and the outcome of every page.               *)
(***************************************************************************)
InitThreads ==
    /\ mode = "gui"
    /\ tesseract_ok = TRUE
    /\ poppler_ok = TRUE
    /\ input_kind = "dir"
    /\ dir_count \in 1 .. MaxRunDocs
    /\ skip_if_text = FALSE
    /\ output_txt = TRUE
    /\ output_pdf = TRUE
    /\ pc = "threads"
    /\ errors = << >>
    /\ exit_code = << >>
    /\ files = list_input_files(input_kind, dir_count).files
    /\ doc_idx = 0
    /\ results = << >>
    /\ log_queue = << >>
    /\ num_pages \in 0 .. MaxRunPages
    /\ nimages = num_pages
    /\ mismatch_warned = FALSE
    /\ page_idx = 0
    /\ writer = << >>
    /\ all_text = << >>
    /\ calls = << >>
    /\ cls_args = NoCall
    /\ cls_ret = "none"
    /\ heap = << >>
    /\ frames = [t \in Workers |-> NoFrame]

\* What no thread step changes: the options, the input, and the variables of
\* the single run modelled by Spec.
outside == << config, locals, probe, pc, errors, exit_code, files, doc_idx,
             results, log_queue >>

\* start_ocr_thread: the new thread runs run_ocr up to its document loop.
StartThread(t) ==
    /\ pc = "threads"
    /\ frames[t].state = "not_started"
    /\ frames' = [frames EXCEPT ![t].state = "loop"]
    /\ UNCHANGED << outside, heap >>

\* The next document: process_single_pdf raises before it has created the
\* writer, or it creates the writer and the accumulator and enters the page
\* loop.
CallProcess(t) ==
    /\ pc = "threads"
    /\ frames[t].state = "loop"
    /\ frames[t].doc < Len(files)
    /\ \/ /\ frames' = [frames EXCEPT ![t].doc = @ + 1]
          /\ UNCHANGED heap
       \/ LET called == [frames EXCEPT ![t].doc = @ + 1]
              run == RunOf(called, t)
              w == new_object(heap)
              h1 == bind(heap, w, run)
              a == new_object(h1)
          IN  /\ heap' = bind(h1, a, run)
              /\ frames' = [called EXCEPT ![t].state = "pages",
                                          ![t].page_idx = 0,
                                          ![t].writer = w,
                                          ![t].all_text = a]
    /\ UNCHANGED outside

\* One iteration of the page loop, on the objects the thread's names refer to.
ThreadPage(t) ==
    /\ pc = "threads"
    /\ frames[t].state = "pages"
    /\ frames[t].page_idx < nimages
    /\ LET w == frames[t].writer
           a == frames[t].all_text
           old_w == Items(heap[w])
           old_a == Items(heap[a])
       IN  \E st \in PageOutcomes(old_w, old_a, frames[t].page_idx) :
             LET h1 == [heap EXCEPT ![w] = extend(@, Appended(old_w, st.writer),
                                                  RunOf(frames, t))]
             IN  heap' = [h1 EXCEPT ![a] = extend(@, Appended(old_a, st.all_text),
                                                  RunOf(frames, t))]
    /\ frames' = [frames EXCEPT ![t].page_idx = @ + 1]
    /\ UNCHANGED outside

\* The end of the call: the outputs are written and the local names are gone.
ThreadReturn(t) ==
    /\ pc = "threads"
    /\ frames[t].state = "pages"
    /\ frames[t].page_idx = nimages
    /\ frames' = [frames EXCEPT ![t].state = "loop", ![t].page_idx = 0,
                                ![t].writer = 0, ![t].all_text = 0]
    /\ heap' = collect(heap, frames')
    /\ UNCHANGED outside

\* run_ocr returns after the last document.
ThreadExit(t) ==
    /\ pc = "threads"
    /\ frames[t].state = "loop"
    /\ frames[t].doc = Len(files)
    /\ frames' = [frames EXCEPT ![t].state = "done"]
    /\ UNCHANGED << outside, heap >>

NextThreads ==
    \E t \in Workers :
        \/ StartThread(t)
        \/ CallProcess(t)
        \/ ThreadPage(t)
        \/ ThreadReturn(t)
        \/ ThreadExit(t)

SpecThreads == InitThreads /\ [][NextThreads]_vars

(***************************************************************************)
(* Properties.                                                             *)
(***************************************************************************)
\* The pages of the writer that come from input index i, in writer order.
PagesOf(i) == SelectSeq(writer, LAMBDA p : p.src = i)

InPageLoop == pc = "pages"

AtLoopEnd == pc = "pages" /\ page_idx = nimages

\* C1: after the page loop has processed k (page, image) pairs the writer
\* holds exactly k pages: each input page contributes exactly one output page.
C1_PageCount ==
    InPageLoop => Len(writer) = page_idx

\* C2: the page at position i of the writer originates from input page i.
C2_PageOrder ==
    InPageLoop => \A p \in 1 .. Len(writer) : writer[p].src = p - 1

\* The per-document entries the driver has recorded, in the order recorded.
Entries ==
    IF mode = "cli"
    THEN results
    ELSE SelectSeq(log_queue, LAMBDA m : m.msg \in { "done", "failed" })

IsError(e) == "error" \in DOMAIN e /\ e.error # ""

BatchEnded ==
    \/ mode = "cli" /\ pc = "exited" /\ exit_code = << 0 >>
    \/ mode = "gui" /\ pc = "returned"
         /\ \E k \in 1 .. Len(log_queue) : log_queue[k].msg = "all tasks complete"

\* C3: the batch loop records one entry per document, in input order, each
\* naming its document; an exception of a document becomes its entry, the
\* later documents are still processed (at the end there are as many entries
\* as documents), and no exception escapes the loop.
C3_BatchIsolation ==
    /\ pc # "escaped"
    /\ pc = "loop" => Len(Entries) = doc_idx
    /\ pc \in { "open", "rasterize", "pages" } => Len(Entries) = doc_idx - 1
    /\ \A k \in 1 .. Len(Entries) : Entries[k].input = files[k]
    /\ BatchEnded => Len(Entries) = Len(files)

C3_Witness ==
    /\ BatchEnded
    /\ Len(files) = 2
    /\ Len(Entries) = 2
    /\ IsError(Entries[1])
    /\ Entries[1].error = "OSError"
    /\ ~IsError(Entries[2])

\* C4, as claimed: with skip_if_text, a page classified as having text is in
\* the output as the original page and no OCR call is made for it.
C4_SkipNeverOcr ==
    \A k \in 1 .. Len(calls) :
        calls[k].cls = "text" =>
            /\ \E p \in 1 .. Len(writer) : writer[p] = OrigPage(calls[k].idx)
            /\ calls[k].ocr_pdf = "none"
            /\ calls[k].ocr_txt = "none"

\* C4, amended: with skip_if_text, a page classified as having text whose
\* original is copied and whose existing text, if text output is requested,
\* is extracted without error is in the output as the original page only,
\* and no OCR call is made for it.
C4_SkipNeverOcrUnlessSkipFails ==
    \A k \in 1 .. Len(calls) :
        ( /\ calls[k].cls = "text"
          /\ calls[k].copy = "ok"
          /\ calls[k].extract # "failed" ) =>
            /\ skip_if_text
            /\ PagesOf(calls[k].idx) = << OrigPage(calls[k].idx) >>
            /\ calls[k].ocr_pdf = "none"
            /\ calls[k].ocr_txt = "none"

C4_Witness ==
    \E k \in 1 .. Len(calls) :
        /\ calls[k].cls = "text"
        /\ calls[k].copy = "ok"
        /\ calls[k].extract = "ok"
        /\ writer[Len(writer)] = OrigPage(calls[k].idx)

\* The texts the pages produced, in page order.
RECURSIVE TextsOf(_)
TextsOf(evs) == IF evs = << >> THEN << >> ELSE Head(evs).text \o TextsOf(Tail(evs))

\* The number of characters of s from its first to its last character that is
\* not whitespace.
TrimmedLength(s) ==
    LET solid == { k \in 1 .. Len(s) : s[k] \notin Whitespace }
    IN  IF solid = {} THEN 0
        ELSE (CHOOSE k \in solid : \A j \in solid : j <= k)
             - (CHOOSE k \in solid : \A j \in solid : k <= j) + 1

\* Text s has the page-break separator at position k.
SeparatorAt(s, k) ==
    /\ k >= 1
    /\ k + Len(PAGE_BREAK) - 1 <= Len(s)
    /\ SubSeq(s, k, k + Len(PAGE_BREAK) - 1) = PAGE_BREAK

\* C5: the combined text is the page texts that are non-empty after trimming,
\* trimmed, in page order, joined by the separator; it neither starts nor ends
\* with a separator and has no two adjacent separators.
C5_TextAccumulation ==
    ( AtLoopEnd /\ output_txt ) =>
        LET c == combined_text(all_text)
            kept == SelectSeq(TextsOf(calls), LAMBDA t : TrimmedLength(t) > 0)
        IN  /\ c = join(PAGE_BREAK, [k \in 1 .. Len(kept) |-> strip(kept[k])])
            /\ ~SeparatorAt(c, 1)
            /\ ~SeparatorAt(c, Len(c) - Len(PAGE_BREAK) + 1)
            /\ \A k \in 1 .. Len(c) :
                   ~(SeparatorAt(c, k) /\ SeparatorAt(c, k + Len(PAGE_BREAK)))

\* Number of pages the steps recorded in event e added to the writer.
Added(e) ==
    (IF e.copy = "ok" THEN 1 ELSE 0)
    + (IF e.ocr_pdf = "ok" THEN 1 ELSE 0)
    + (IF e.handler # "none" THEN 1 ELSE 0)

\* C6: with skip_if_text, when the copy of the original of a page classified
\* as having text fails, OCR is run on the page and, if text output is
\* requested and OCR gave a page, OCR text extraction too; the output gets a
\* page for that index and the loop goes on to the next page.
C6_SkipFallback ==
    /\ InPageLoop => Len(calls) = page_idx
    /\ \A k \in 1 .. Len(calls) :
         ( calls[k].cls = "text" /\ calls[k].copy = "failed" ) =>
             /\ calls[k].idx = k - 1
             /\ calls[k].ocr_pdf # "none"
             /\ calls[k].ocr_pdf = "ok" =>
                    /\ OcrPage(k - 1) \in { writer[p] : p \in 1 .. Len(writer) }
                    /\ output_txt => calls[k].ocr_txt # "none"
             /\ calls[k].ocr_txt = "ok" =>
                    all_text = TextsOf(calls) /\ calls[k].text # << >>
             /\ PagesOf(k - 1) # << >>

C6_Witness ==
    /\ InPageLoop
    /\ \E k \in 1 .. Len(calls) :
         /\ calls[k].cls = "text"
         /\ calls[k].copy = "failed"
         /\ calls[k].ocr_pdf = "ok"
         /\ calls[k].ocr_txt = "ok"
         /\ PagesOf(k - 1) = << OcrPage(k - 1) >>
         /\ k < Len(calls)

\* C7: when a step for page i raises an error the skip-path fallback does not
\* absorb (an OCR call fails), the handler logs it and appends one page, the
\* original page i if its copy succeeds and otherwise a blank page of 595 x
\* 842; the loop goes on to the next page and the error does not leave it.
C7_LastResort ==
    /\ InPageLoop => Len(calls) = page_idx
    /\ \A k \in 1 .. Len(calls) :
         LET e == calls[k]
             pages == PagesOf(k - 1)
         IN  /\ ( e.ocr_pdf = "failed" \/ e.ocr_txt = "failed" ) <=> e.handler # "none"
             /\ Len(pages) = Added(e)
             /\ e.handler # "none" =>
                    /\ \E j \in 1 .. Len(e.log) :
                           e.log[j] = "exception: error processing page"
                    /\ Len(pages) >= 1
                    /\ e.handler = "orig" =>
                           k - 1 < num_pages /\ pages[Len(pages)] = OrigPage(k - 1)
                    /\ e.handler = "blank" =>
                           pages[Len(pages)] =
                               [kind |-> "blank", src |-> k - 1,
                                width |-> 595, height |-> 842]

C7_Witness ==
    /\ InPageLoop
    /\ Len(calls) = 2
    /\ calls[1].ocr_pdf = "failed"
    /\ calls[1].handler = "blank"
    /\ writer[1].kind = "blank"
    /\ calls[2].handler = "none"
    /\ calls[2].ocr_pdf = "ok"

\* C8: pdf_page_has_text returns True exactly when the document opens, the
\* index is within [0, page count), the extraction succeeds and the text has
\* more than 20 characters after trimming; otherwise it returns False; it
\* never raises.
C8_Classifier ==
    pc = "classified" =>
        /\ cls_ret \in { "True", "False" }
        /\ cls_ret = "True" <=>
               /\ cls_args.open_ok
               /\ 0 <= cls_args.page_number
               /\ cls_args.page_number < cls_args.npages
               /\ cls_args.extract_ok
               /\ ~cls_args.text.none
               /\ TrimmedLength(cls_args.text.s) > 20

C8_Witness ==
    /\ pc = "classified"
    /\ cls_ret = "True"
    /\ TrimmedLength(cls_args.text.s) = 21
    /\ Len(cls_args.text.s) > 21

Reported(what) == { k \in 1 .. Len(errors) : errors[k] = what }

\* C9, as claimed: if the OCR engine is unreachable, the run reports the
\* dependency failure and stops before the input list is resolved and before
\* any document is processed; the CLI exits non-zero, run_ocr returns.
C9_StartupGate ==
    ~tesseract_ok =>
        /\ pc \in { "exists_check", "check_deps", "exited", "returned" }
        /\ files = << >> /\ doc_idx = 0 /\ Entries = << >>
        /\ pc \in { "exited", "returned" } =>
               /\ Reported("dependency") # {}
               /\ mode = "cli" => pc = "exited" /\ exit_code = << 1 >>
               /\ mode = "gui" => pc = "returned"

\* C9, amended: as claimed, except that run_ocr first checks that the input
\* path exists: in the GUI the dependency failure is reported when the input
\* path exists, and otherwise run_ocr reports the missing input path and
\* returns, still without resolving the input list or processing a document.
C9_StartupGateInputExists ==
    ~tesseract_ok =>
        /\ pc \in { "exists_check", "check_deps", "exited", "returned" }
        /\ files = << >> /\ doc_idx = 0 /\ Entries = << >>
        /\ pc \in { "exited", "returned" } =>
               /\ ( mode = "cli" \/ input_kind # "missing" ) =>
                      Reported("dependency") # {}
               /\ ( mode = "gui" /\ input_kind = "missing" ) =>
                      errors = << "input path does not exist" >>
               /\ mode = "cli" => pc = "exited" /\ exit_code = << 1 >>
               /\ mode = "gui" => pc = "returned"

C9_Witness ==
    /\ ~tesseract_ok
    /\ mode = "gui"
    /\ input_kind = "dir"
    /\ pc = "returned"
    /\ errors = << "dependency" >>

\* C10: if the rasterizer is not installed, the failure is fatal at startup:
\* main never opens a document and produces no per-document result, and the
\* process exits non-zero, a startup failure having been reported (the
\* dependency failure not more than once).
C10_RasterizerGate ==
    ( ~poppler_ok /\ mode = "cli" ) =>
        /\ pc \notin { "rasterize", "pages" }
        /\ results = << >>
        /\ pc = "exited" =>
               /\ exit_code # << 0 >>
               /\ errors # << >>
               /\ Cardinality(Reported("dependency")) <= 1

\* C11, as claimed: main exits 0 whenever the end of the batch is reached,
\* whatever number of documents failed; it exits non-zero only when the
\* dependency check fails or the input path cannot be resolved.
C11_ExitStatus ==
    ( mode = "cli" /\ pc = "exited" ) =>
        /\ ( doc_idx = Len(files) /\ Len(results) = Len(files) /\ errors = << >> )
               => exit_code = << 0 >>
        /\ exit_code # << 0 >> =>
               \/ ~tesseract_ok
               \/ input_kind \in { "missing", "other" }

\* C11, amended: main exits 0 whenever the end of the batch is reached,
\* whatever number of documents failed; it exits non-zero, with status 1 and
\* one error reported, only when the dependency check fails, the input path
\* cannot be resolved, or --batch is given with an input that is not a
\* directory; in these cases no document has been processed.
C11_ExitStatusWithBatchCheck ==
    ( mode = "cli" /\ pc = "exited" ) =>
        /\ exit_code \in { << 0 >>, << 1 >> }
        /\ exit_code = << 0 >> <=> errors = << >>
        /\ exit_code = << 0 >> =>
               /\ doc_idx = Len(files)
               /\ Len(results) = Len(files)
               /\ tesseract_ok
               /\ input_kind \in { "file", "dir" }
        /\ exit_code = << 1 >> =>
               /\ results = << >> /\ doc_idx = 0
               /\ \/ errors = << "dependency" >> /\ ~tesseract_ok
                  \/ errors = << "input" >> /\ input_kind \in { "missing", "other" }
                  \/ errors = << "batch" >> /\ input_kind = "file"

C11_Witness ==
    /\ mode = "cli"
    /\ pc = "exited"
    /\ exit_code = << 0 >>
    /\ Len(results) = 2
    /\ IsError(results[1])
    /\ IsError(results[2])

Min(a, b) == IF a <= b THEN a ELSE b

\* C12: when the rasterizer returns a number of images different from the
\* page count a warning is logged and processing continues into the page
\* loop, which processes exactly min(number of images, page count) pairs,
\* every one of them at an index inside the shorter sequence.
C12_LengthMismatch ==
    /\ InPageLoop => ( mismatch_warned <=> nimages # num_pages )
    /\ InPageLoop => \A k \in 1 .. Len(calls) :
                         calls[k].idx < Min(nimages, num_pages)
    /\ AtLoopEnd => Len(calls) = Min(nimages, num_pages)

\* C13: every item of a writer or an accumulator was appended by the run
\* that created the object; a thread inside the page loop refers to two
\* distinct objects that its current run created, and they are empty when the
\* loop starts.
C13_ExclusiveOwnership ==
    /\ \A r \in DOMAIN heap :
         \A k \in 1 .. Len(heap[r].items) : heap[r].items[k].run = heap[r].owner
    /\ \A t \in Workers :
         frames[t].state = "pages" =>
           /\ frames[t].writer \in DOMAIN heap
           /\ frames[t].all_text \in DOMAIN heap
           /\ frames[t].writer # frames[t].all_text
           /\ heap[frames[t].writer].owner = RunOf(frames, t)
           /\ heap[frames[t].all_text].owner = RunOf(frames, t)
           /\ frames[t].page_idx = 0 =>
                /\ heap[frames[t].writer].items = << >>
                /\ heap[frames[t].all_text].items = << >>

C13_Witness ==
    /\ \A t \in Workers :
         /\ frames[t].state = "pages"
         /\ frames[t].page_idx >= 1
         /\ heap[frames[t].writer].items # << >>
         /\ heap[frames[t].all_text].items # << >>
    /\ \E t \in Workers : frames[t].doc >= 2

====
